---- MODULE Spec2Model ----
(***************************************************************************)
(* Apartment rent calculator: Data Generator (data_generator.py), Trainer  *)
(* (train_model.py), Prediction Service (api.py), Interactive Form         *)
(* (app.py).                                                               *)
(*                                                                         *)
(* Units.  total_surface is a float in the source; the model draws it from *)
(* whole square metres.  The generator's multiplicative factor is a float  *)
(* in [0.8, 1.2); the model holds it in hundredths (80 .. 119), so a rent  *)
(* is held in cents: BaseRent (dollars) * factor (hundredths).             *)
(***************************************************************************)
EXTENDS Integers, Sequences, FiniteSets, TLC

VARIABLES
    \* ---- Data Generator (one call of generate_apartment_data)
    gen_pc,         \* "start" | "loop" | "done" | "error"
    n_samples,      \* the argument n_samples
    data,           \* the drawn columns, one record per row
    factors,        \* the np.random.uniform(0.8, 1.2) draws consumed so far
    monthly_rent,   \* data['monthly_rent'], in cents
    df,             \* the returned table
    \* ---- files
    csv,            \* apartment_data.csv
    disk,           \* the four *.joblib files
    \* ---- Trainer (runs of train_model)
    tpc,            \* "idle" | "encoders_saved" | "fitted"
    trun,           \* number of the current / last run
    tmem,           \* objects the running trainer holds in memory
    tlast,          \* how the last run ended: "none" | "completed" | "aborted"
    \* ---- Prediction Service
    svc,            \* "down" | "serving" | "aborted"
    loaded,         \* module-level model, conformal_model, le_floor, le_style
    log,            \* logger output of the service
    preq,           \* the POST /predict request in flight / last answered
    ireq,           \* the GET /info or GET / request last answered
    served,         \* number of requests received
    \* ---- Interactive Form
    fpc,            \* "down" | "failed" | "ready" | "running"
    models,         \* load_models() result (st.cache_resource)
    screen          \* what the last script run rendered

genVars == <<gen_pc, n_samples, data, factors, monthly_rent, df>>
fileVars == <<csv, disk>>
trainVars == <<tpc, trun, tmem, tlast>>
svcVars == <<svc, loaded, log, preq, ireq, served>>
formVars == <<fpc, models, screen>>
vars == <<genVars, fileVars, trainVars, svcVars, formVars>>

(***************************************************************************)
(* Bounds of the model                                                     *)
(***************************************************************************)
MaxSamples == 2     \* largest n_samples a generator call is given
MaxRuns == 2        \* trainer runs in one behaviour
MaxRequests == 2    \* requests the service receives in one behaviour

None == "None"

Range(s) == {s[i] : i \in 1..Len(s)}

(***************************************************************************)
(* Data Generator                                                          *)
(***************************************************************************)
floor_materials == <<"Hardwood", "Carpet", "Tile", "Laminate", "Vinyl">>
styles == <<"Modern", "Contemporary", "Traditional", "Industrial", "Minimalist">>

BaseAmount == 1000
PerRoom == 300
PerBathroom == 200
PerSurface == 10
PerAge == 10
MinRent == 500

GenRooms == 1..5            \* np.random.randint(1, 6)
GenBathrooms == 1..3        \* np.random.randint(1, 4)
GenSurfaces == {30, 199}    \* np.random.uniform(30, 200): both ends of [30, 200)
GenAges == 0..49            \* np.random.randint(0, 50)
GenFactors == {80, 119}     \* np.random.uniform(0.8, 1.2), in hundredths

Row(r, b, s, a, fm, st) ==
    [rooms |-> r, bathrooms |-> b, total_surface |-> s, building_age |-> a,
     floor_material |-> fm, style |-> st]

\* Every numeric combination, with the k-th material paired with the k-th style.
SweepRows ==
    {Row(r, b, s, a, floor_materials[k], styles[k]) :
        r \in GenRooms, b \in GenBathrooms, s \in GenSurfaces, a \in GenAges,
        k \in 1..5}

\* The cheapest and the dearest apartment, with every material and style.
CornerRows ==
    {Row(c[1], c[2], c[3], c[4], fm, st) :
        c \in {<<1, 1, 30, 49>>, <<5, 3, 199, 0>>},
        fm \in Range(floor_materials), st \in Range(styles)}

DiagonalRows == {w \in CornerRows : \E k \in 1..5 :
                    w.floor_material = floor_materials[k] /\ w.style = styles[k]}

\* The columns one call can draw.  A one-row table sweeps the whole numeric
\* range; longer tables are built from the corner rows to keep TLC's state
\* space small.
TableDraws(n) ==
    IF n <= 1 THEN [1..n -> SweepRows \cup CornerRows]
              ELSE [1..n -> DiagonalRows]

\* BaseRent with the age term ten times too large
BaseRentAgeBug(w) ==
    BaseAmount + w.rooms * PerRoom + w.bathrooms * PerBathroom
        + w.total_surface * PerSurface - w.building_age * PerAge * 10

\* lines 24-32, in dollars
BaseRent(w) ==
    BaseAmount + w.rooms * PerRoom + w.bathrooms * PerBathroom
        + w.total_surface * PerSurface - w.building_age * PerAge

\* line 34: base_rent *= factor, in cents
Unfloored(w, f) == BaseRent(w) * f

\* line 36: max(base_rent, 500), in cents
MonthlyRent(w, f) ==
    IF Unfloored(w, f) >= MinRent * 100 THEN Unfloored(w, f) ELSE MinRent * 100

\* the loop of line 23 ending one iteration early
RentLoopRunsShort(i, n) == i < n - 1

\* line 23: for i in range(n_samples)
RentLoopRuns(i, n) == i < n

GenInit ==
    /\ gen_pc = "start"
    /\ n_samples = 0
    /\ data = <<>>
    /\ factors = <<>>
    /\ monthly_rent = <<>>
    /\ df = <<>>

\* lines 5-20: the call draws its columns
GenDraw ==
    /\ gen_pc = "start"
    /\ \E n \in 0..MaxSamples : \E t \in TableDraws(n) :
        /\ n_samples' = n
        /\ data' = t
    /\ gen_pc' = "loop"
    /\ UNCHANGED <<factors, monthly_rent, df, fileVars, trainVars, svcVars, formVars>>

\* lines 23-36: one iteration of the rent loop
GenRentStep ==
    /\ gen_pc = "loop"
    /\ RentLoopRuns(Len(monthly_rent), n_samples)
    /\ \E f \in GenFactors :
        /\ factors' = Append(factors, f)
        /\ monthly_rent' =
              Append(monthly_rent, MonthlyRent(data[Len(monthly_rent) + 1], f))
    /\ UNCHANGED <<gen_pc, n_samples, data, df, fileVars, trainVars, svcVars, formVars>>

\* lines 38-39: pd.DataFrame(data) raises when the columns differ in length
GenFrame ==
    /\ gen_pc = "loop"
    /\ ~RentLoopRuns(Len(monthly_rent), n_samples)
    /\ IF Len(monthly_rent) = Len(data)
         THEN /\ df' = [i \in 1..Len(data) |->
                          [rooms |-> data[i].rooms,
                           bathrooms |-> data[i].bathrooms,
                           total_surface |-> data[i].total_surface,
                           building_age |-> data[i].building_age,
                           floor_material |-> data[i].floor_material,
                           style |-> data[i].style,
                           monthly_rent |-> monthly_rent[i]]]
              /\ gen_pc' = "done"
         ELSE /\ df' = <<>>
              /\ gen_pc' = "error"
    /\ UNCHANGED <<n_samples, data, factors, monthly_rent,
                   fileVars, trainVars, svcVars, formVars>>

(***************************************************************************)
(* Files                                                                   *)
(***************************************************************************)
Files == <<"rent_model.joblib", "conformal_model.joblib",
           "le_floor.joblib", "le_style.joblib">>

\* A pickled object: its kind, the classes_ of an encoder, and the number of
\* the training run that created it (history, to tell runs apart).
Absent == [kind |-> "absent", classes |-> <<>>, run |-> 0]
Encoder(cls, r) == [kind |-> "encoder", classes |-> cls, run |-> r]
Regressor(r) == [kind |-> "regressor", classes |-> <<>>, run |-> r]
Mapie(r) == [kind |-> "mapie", classes |-> <<>>, run |-> r]

\* df.to_csv of a table the generator returns (data_generator.py:41-43)
Frame(rows, fs) ==
    [i \in 1..Len(rows) |->
        [rooms |-> rows[i].rooms,
         bathrooms |-> rows[i].bathrooms,
         total_surface |-> rows[i].total_surface,
         building_age |-> rows[i].building_age,
         floor_material |-> rows[i].floor_material,
         style |-> rows[i].style,
         monthly_rent |-> MonthlyRent(rows[i], fs[i])]]

\* Tables the generator can write: no row, one row, two rows, and five rows
\* holding every material and every style.
DatasetEmpty == Frame(<<>>, <<>>)
DatasetOne == Frame(<<Row(2, 1, 80, 10, "Tile", "Industrial")>>, <<100>>)
DatasetTwo ==
    Frame(<<Row(1, 1, 30, 49, "Hardwood", "Modern"),
            Row(5, 3, 199, 0, "Vinyl", "Modern")>>, <<80, 119>>)
DatasetFull ==
    Frame([k \in 1..5 |-> Row(k, 1 + (k % 3), 30 + 30 * k, 10 * k - 10,
                              floor_materials[k], styles[k])],
          [k \in 1..5 |-> 80 + 7 * k])
Datasets == {DatasetEmpty, DatasetOne, DatasetTwo, DatasetFull}

(***************************************************************************)
(* Trainer                                                                 *)
(***************************************************************************)
\* Python's order on the strings of the model (np.unique sorts the labels).
SortedLabels ==
    <<"Carpet", "Contemporary", "Gothic", "Hardwood", "Industrial", "Laminate",
      "Marble", "Minimalist", "Modern", "Tile", "Traditional", "Vinyl">>

\* LabelEncoder.fit: classes_ = the distinct labels of the column, sorted
Fit(column) ==
    LET Seen(l) == l \in Range(column)
    IN SelectSeq(SortedLabels, Seen)

Column(table, name) == [i \in 1..Len(table) |-> table[i][name]]

\* LabelEncoder.transform([label])[0]: the label's position in classes_, or
\* ValueError for a label that is not in classes_
Transform(classes, label) ==
    IF \E i \in 1..Len(classes) : classes[i] = label
      THEN [ok |-> TRUE,
            code |-> (CHOOSE i \in 1..Len(classes) : classes[i] = label) - 1,
            error |-> None]
      ELSE [ok |-> FALSE, code |-> -1,
            error |-> "y contains previously unseen labels"]

\* train_test_split(test_size=0.2): n_test = ceil(0.2 n), the rest is trained on
NTest(n) == (n + 4) \div 5
NTrain(n) == n - NTest(n)

NoMem == [le_floor |-> Absent, le_style |-> Absent,
          base_model |-> Absent, mapie |-> Absent, rows |-> 0]

\* what lines 22-23 write
DumpEncoders(d, m) ==
    [d EXCEPT !["le_floor.joblib"] = m.le_floor,
              !["le_style.joblib"] = m.le_style]

\* what lines 64-65 write
DumpModels(d, m) ==
    [d EXCEPT !["rent_model.joblib"] = m.base_model,
              !["conformal_model.joblib"] = m.mapie]

FilesInit ==
    /\ csv \in Datasets
    /\ disk = [f \in Range(Files) |-> Absent]

TrainInit ==
    /\ tpc = "idle"
    /\ trun = 0
    /\ tmem = NoMem
    /\ tlast = "none"

\* data_generator.py run again: apartment_data.csv is overwritten.  The
\* trainer reads the file only as a run starts (line 12), so the model writes
\* it only between runs, and only while a run can still follow.
ReplaceDataset ==
    /\ tpc = "idle"
    /\ trun < MaxRuns
    /\ \E t \in Datasets \ {csv} : csv' = t
    /\ UNCHANGED <<disk, genVars, trainVars, svcVars, formVars>>

\* lines 11-23: read the table, fit both encoders, save them
TrainEncoders ==
    /\ tpc = "idle"
    /\ trun < MaxRuns
    /\ trun' = trun + 1
    /\ tmem' = [NoMem EXCEPT
                  !.le_floor = Encoder(Fit(Column(csv, "floor_material")), trun + 1),
                  !.le_style = Encoder(Fit(Column(csv, "style")), trun + 1),
                  !.rows = Len(csv)]
    /\ disk' = DumpEncoders(disk, tmem')
    /\ tpc' = "encoders_saved"
    /\ UNCHANGED <<csv, tlast, genVars, svcVars, formVars>>

\* lines 25-61: split, fit the regressor, fit MAPIE, evaluate.  The split
\* raises when no training row is left; otherwise a fit or the evaluation may
\* raise inside the external libraries (fitted = FALSE).  Nothing catches the
\* exception: the run ends there.
TrainFit ==
    /\ tpc = "encoders_saved"
    /\ \E fitted \in BOOLEAN :
        /\ NTrain(tmem.rows) = 0 => ~fitted
        /\ IF fitted
             THEN /\ tmem' = [tmem EXCEPT !.base_model = Regressor(trun),
                                          !.mapie = Mapie(trun)]
                  /\ tpc' = "fitted"
                  /\ tlast' = tlast
             ELSE /\ tmem' = NoMem
                  /\ tpc' = "idle"
                  /\ tlast' = "aborted"
    /\ UNCHANGED <<csv, disk, trun, genVars, svcVars, formVars>>

\* lines 63-65: save the regressor and the conformal wrapper
TrainSave ==
    /\ tpc = "fitted"
    /\ disk' = DumpModels(disk, tmem)
    /\ tmem' = NoMem
    /\ tpc' = "idle"
    /\ tlast' = "completed"
    /\ UNCHANGED <<csv, trun, genVars, svcVars, formVars>>

TrainNext == TrainEncoders \/ TrainFit \/ TrainSave

(***************************************************************************)
(* Prediction Service                                                      *)
(***************************************************************************)
RoomsMin == 1
RoomsMax == 5
BathroomsMin == 1
BathroomsMax == 3
SurfaceMin == 30
SurfaceMax == 200
AgeMin == 0
AgeMax == 50

NoArtifacts == [f \in Range(Files) |-> Absent]

AllPresent(d) == \A f \in Range(Files) : d[f].kind # "absent"

\* joblib.load is called in the order of Files: the first missing file raises
FirstMissing(d) ==
    Files[CHOOSE i \in 1..Len(Files) :
            /\ d[Files[i]].kind = "absent"
            /\ \A j \in 1..(i - 1) : d[Files[j]].kind # "absent"]

\* the except clause of lines 22-24 without its raise
StartupStateSwallowed(d) == "serving"

\* lines 16-24: the module body runs on when every load returned, and ends
\* with the exception otherwise (the except clause logs and re-raises)
StartupState(d) == IF AllPresent(d) THEN "serving" ELSE "aborted"

StartupLog(d) ==
    IF AllPresent(d)
      THEN [level |-> "INFO", msg |-> "Models loaded successfully", detail |-> None]
      ELSE [level |-> "ERROR", msg |-> "Error loading models",
            detail |-> FirstMissing(d)]

\* the constraints with le= left out of every field
PydanticValidNoUpper(b) ==
    /\ RoomsMin <= b.rooms
    /\ BathroomsMin <= b.bathrooms
    /\ SurfaceMin <= b.total_surface
    /\ AgeMin <= b.building_age

\* lines 27-30: the Field(ge=, le=) constraints of ApartmentFeatures
PydanticValid(b) ==
    /\ RoomsMin <= b.rooms /\ b.rooms <= RoomsMax
    /\ BathroomsMin <= b.bathrooms /\ b.bathrooms <= BathroomsMax
    /\ SurfaceMin <= b.total_surface /\ b.total_surface <= SurfaceMax
    /\ AgeMin <= b.building_age /\ b.building_age <= AgeMax

\* The name of the first field a constraint rejects (part of the 422 body)
FirstViolation(b) ==
    IF ~(RoomsMin <= b.rooms /\ b.rooms <= RoomsMax) THEN "rooms"
    ELSE IF ~(BathroomsMin <= b.bathrooms /\ b.bathrooms <= BathroomsMax)
      THEN "bathrooms"
    ELSE IF ~(SurfaceMin <= b.total_surface /\ b.total_surface <= SurfaceMax)
      THEN "total_surface"
    ELSE "building_age"

\* Request bodies: the documented example, with one numeric field at a time
\* moved to each side of each of its bounds, and known and unknown labels.
ExampleNumbers == <<2, 1, 80, 10>>
NumberSamples ==
    {ExampleNumbers}
      \cup {[ExampleNumbers EXCEPT ![1] = v] : v \in {0, 1, 5, 6}}
      \cup {[ExampleNumbers EXCEPT ![2] = v] : v \in {0, 3, 4}}
      \cup {[ExampleNumbers EXCEPT ![3] = v] : v \in {29, 30, 200, 201}}
      \cup {[ExampleNumbers EXCEPT ![4] = v] : v \in {-1, 0, 50, 51}}
FloorSamples == {"Hardwood", "Tile", "Marble"}
StyleSamples == {"Modern", "Industrial", "Gothic"}
\* Every pair of labels with the example's numbers; the other numbers with
\* the example's labels and with two unknown labels.
Bodies ==
    {Row(c[1], c[2], c[3], c[4], l[1], l[2]) :
        c \in {ExampleNumbers}, l \in FloorSamples \X StyleSamples}
      \cup {Row(c[1], c[2], c[3], c[4], l[1], l[2]) :
               c \in NumberSamples,
               l \in {<<"Hardwood", "Modern">>, <<"Marble", "Gothic">>}}
NoBody == Row(0, 0, 0, 0, None, None)

\* What conformal_model.predict(features_array, alpha=0.05) can do: return a
\* point estimate and an interval (held in tenths of a cent), or raise.
PredictOutcomes ==
    {[ok |-> TRUE, prediction |-> 2100456, lower |-> 1500123, upper |-> 2700789,
      error |-> None],
     [ok |-> FALSE, prediction |-> 0, lower |-> 0, upper |-> 0,
      error |-> "X has 6 features, but the estimator expects other input"]}

\* round(float(x), 2): tenths of a cent to the nearest cent
Round2(m) == (m + 5) \div 10

NoDetail == [kind |-> "none", field |-> None, valid |-> <<>>, desc |-> None]
NoResult == [predicted_rent |-> 0, lower |-> 0, upper |-> 0,
             confidence_level |-> None, currency |-> None, features |-> NoBody]
\* A call made on a loaded object, and the exception it raised (None: it
\* returned)
TransformCall(name, label, enc) ==
    [fn |-> name, label |-> label, features |-> <<>>, raised |-> enc.error]
PredictCall(x, ext) ==
    [fn |-> "conformal_model.predict", label |-> None, features |-> x,
     raised |-> ext.error]

\* the handler without the tests of lines 62 and 67
KnownLabelUnchecked(classes, label) == TRUE

\* lines 62 and 67: the test `label not in le.classes_`, negated
KnownLabel(classes, label) == label \in Range(classes)

\* lines 60-101: the try block.  The outcome is a returned value, a raised
\* HTTPException or another raised exception; calls lists the calls made on
\* the loaded objects.
TryBlock(ld, b, ext) ==
    LET fcls == ld["le_floor.joblib"].classes
        scls == ld["le_style.joblib"].classes
        fenc == Transform(fcls, b.floor_material)
        senc == Transform(scls, b.style)
        fcall == TransformCall("le_floor.transform", b.floor_material, fenc)
        scall == TransformCall("le_style.transform", b.style, senc)
        x == <<b.rooms, b.bathrooms, b.total_surface, b.building_age,
               fenc.code, senc.code>>
    IN  IF ~KnownLabel(fcls, b.floor_material)
          THEN [raised |-> "HTTPException", status |-> 400,
                detail |-> [kind |-> "invalid", field |-> "floor_material",
                            valid |-> fcls, desc |-> None],
                result |-> NoResult, calls |-> <<>>]
        ELSE IF ~KnownLabel(scls, b.style)
          THEN [raised |-> "HTTPException", status |-> 400,
                detail |-> [kind |-> "invalid", field |-> "style",
                            valid |-> scls, desc |-> None],
                result |-> NoResult, calls |-> <<>>]
        ELSE IF ~fenc.ok
          THEN [raised |-> "Exception", status |-> 0,
                detail |-> [NoDetail EXCEPT !.desc = fenc.error],
                result |-> NoResult, calls |-> <<fcall>>]
        ELSE IF ~senc.ok
          THEN [raised |-> "Exception", status |-> 0,
                detail |-> [NoDetail EXCEPT !.desc = senc.error],
                result |-> NoResult, calls |-> <<fcall, scall>>]
        ELSE IF ~ext.ok
          THEN [raised |-> "Exception", status |-> 0,
                detail |-> [NoDetail EXCEPT !.desc = ext.error],
                result |-> NoResult, calls |-> <<fcall, scall, PredictCall(x, ext)>>]
        ELSE [raised |-> None, status |-> 200, detail |-> NoDetail,
              result |-> [predicted_rent |-> Round2(ext.prediction),
                          lower |-> Round2(ext.lower),
                          upper |-> Round2(ext.upper),
                          confidence_level |-> "95%", currency |-> "USD",
                          features |-> b],
              calls |-> <<fcall, scall, PredictCall(x, ext)>>]

\* the handler without the clause of lines 102-103: HTTPException is an
\* Exception, so the clause of line 104 takes it
ExceptClausesCatchAll(t) ==
    IF t.raised # None
      THEN [t EXCEPT !.raised = "HTTPException", !.status = 500,
                     !.detail = [NoDetail EXCEPT !.kind = "prediction_error",
                                                 !.desc = t.detail.desc]]
      ELSE t

\* lines 102-106: an HTTPException is re-raised as it is; any other exception
\* is logged and becomes HTTPException(500, "Prediction error: ...")
ExceptClauses(t) ==
    IF t.raised = "Exception"
      THEN [t EXCEPT !.raised = "HTTPException", !.status = 500,
                     !.detail = [NoDetail EXCEPT !.kind = "prediction_error",
                                                 !.desc = t.detail.desc]]
      ELSE t

\* lines 57-106: the handler
predict_rent(ld, b, ext) == ExceptClauses(TryBlock(ld, b, ext))

\* /info answering with the generator's lists instead of the encoders'
model_info_hardcoded(ld) ==
    [kind |-> "info",
     rooms |-> <<1, 5>>, bathrooms |-> <<1, 3>>, total_surface |-> <<30, 200>>,
     building_age |-> <<0, 50>>,
     floor_materials |-> floor_materials,
     styles |-> styles]

\* lines 108-121
model_info(ld) ==
    [kind |-> "info",
     rooms |-> <<1, 5>>, bathrooms |-> <<1, 3>>, total_surface |-> <<30, 200>>,
     building_age |-> <<0, 50>>,
     floor_materials |-> ld["le_floor.joblib"].classes,
     styles |-> ld["le_style.joblib"].classes]

\* lines 46-55
InfoShape(k) ==
    [kind |-> k,
     rooms |-> <<0, 0>>, bathrooms |-> <<0, 0>>, total_surface |-> <<0, 0>>,
     building_age |-> <<0, 0>>, floor_materials |-> <<>>, styles |-> <<>>]

\* lines 46-55: a fixed description of the endpoints
root == InfoShape("root")

NoAnswer == InfoShape("none")

NoRequest == [stage |-> "none", body |-> NoBody, status |-> 0,
              detail |-> NoDetail, result |-> NoResult, calls |-> <<>>]

SvcInit ==
    /\ svc = "down"
    /\ loaded = NoArtifacts
    /\ log = <<>>
    /\ preq = NoRequest
    /\ ireq = NoAnswer
    /\ served = 0

\* lines 15-24 and 123-125: the process starts; it serves only if the module
\* body ran to its end
ServiceStart ==
    /\ svc = "down"
    /\ svc' = StartupState(disk)
    /\ loaded' = IF AllPresent(disk) THEN disk ELSE NoArtifacts
    /\ log' = Append(log, StartupLog(disk))
    /\ UNCHANGED <<preq, ireq, served, fileVars, genVars, trainVars, formVars>>

\* POST /predict arrives: the body is parsed into ApartmentFeatures (lines
\* 26-32); a body the constraints reject is answered 422 by the framework and
\* the handler is not called
PostPredict ==
    /\ svc = "serving"
    /\ served < MaxRequests
    /\ preq.stage # "validated"
    /\ \E b \in Bodies :
        preq' = IF PydanticValid(b)
                  THEN [NoRequest EXCEPT !.stage = "validated", !.body = b]
                  ELSE [NoRequest EXCEPT
                          !.stage = "done", !.body = b, !.status = 422,
                          !.detail = [NoDetail EXCEPT !.kind = "validation",
                                                      !.field = FirstViolation(b)]]
    /\ served' = served + 1
    /\ UNCHANGED <<svc, loaded, log, ireq, fileVars, genVars, trainVars, formVars>>

\* lines 57-106: the handler runs on the validated body
PredictRent ==
    /\ svc = "serving"
    /\ preq.stage = "validated"
    /\ \E ext \in PredictOutcomes :
        LET r == predict_rent(loaded, preq.body, ext)
        IN  /\ preq' = [preq EXCEPT !.stage = "done", !.status = r.status,
                                    !.detail = r.detail, !.result = r.result,
                                    !.calls = r.calls]
            /\ log' = IF r.status = 500
                        THEN Append(log, [level |-> "ERROR",
                                          msg |-> "Prediction error",
                                          detail |-> r.detail.desc])
                        ELSE log
    /\ UNCHANGED <<svc, loaded, ireq, served, fileVars, genVars, trainVars, formVars>>

\* lines 108-121: GET /info
GetInfo ==
    /\ svc = "serving"
    /\ served < MaxRequests
    /\ ireq' = model_info(loaded)
    /\ served' = served + 1
    /\ UNCHANGED <<svc, loaded, log, preq, fileVars, genVars, trainVars, formVars>>

\* lines 46-55: GET /
GetRoot ==
    /\ svc = "serving"
    /\ served < MaxRequests
    /\ ireq' = root
    /\ served' = served + 1
    /\ UNCHANGED <<svc, loaded, log, preq, fileVars, genVars, trainVars, formVars>>

SvcNext == ServiceStart \/ PostPredict \/ PredictRent \/ GetInfo \/ GetRoot

(***************************************************************************)
(* Interactive Form                                                        *)
(***************************************************************************)
MinSurfacePerRoom == 15

SurfaceWarningText == "The total surface seems too small for the number of rooms."
BathroomWarningText ==
    "The number of bathrooms is unusually high for the number of rooms."

\* line 60 with <= for <
SurfaceWarningInclusive(w) == w.total_surface <= w.rooms * MinSurfacePerRoom

\* line 60
SurfaceWarning(w) == w.total_surface < w.rooms * MinSurfacePerRoom
\* line 63
BathroomWarning(w) == w.bathrooms > w.rooms

\* lines 59-64
Warnings(w) ==
    (IF SurfaceWarning(w) THEN {SurfaceWarningText} ELSE {})
      \cup (IF BathroomWarning(w) THEN {BathroomWarningText} ELSE {})

\* st.selectbox(options=classes_): one of the options, None when there is none
Options(classes) == IF Len(classes) = 0 THEN {None} ELSE Range(classes)
FirstOption(classes) == IF Len(classes) = 0 THEN None ELSE classes[1]

\* Values the widgets of lines 37-45 can hold: st.number_input keeps a value
\* within min_value .. max_value.  The surfaces are the two bounds and the
\* values on both sides of 15 * rooms for 5 rooms.
FormSurfaces == {30, 74, 75, 200}
FormAges == {0, 10, 50}
FormInputs(m) ==
    {Row(r, b, s, a, fm, st) :
        r \in 1..5, b \in 1..3, s \in FormSurfaces, a \in FormAges,
        fm \in Options(m["le_floor.joblib"].classes),
        st \in Options(m["le_style.joblib"].classes)}

\* the value= defaults of the widgets
FormDefaults(m) ==
    Row(2, 1, 80, 10, FirstOption(m["le_floor.joblib"].classes),
        FirstOption(m["le_style.joblib"].classes))

NoMetrics == [shown |-> FALSE, lower |-> 0, point |-> 0, upper |-> 0]

BlankScreen ==
    [inputs |-> NoBody, warnings |-> {}, button |-> FALSE, calculate |-> FALSE,
     error |-> None, raised |-> None, debug |-> FALSE, metrics |-> NoMetrics,
     chart |-> FALSE, calls |-> <<>>]

\* lines 25-196: one run of the script with the models loaded.  error is the
\* st.error message, raised the exception that ended the run.
\* (st.session_state.last_prediction, lines 69-76, is written on a submit and
\* read nowhere; the inputs of the submit are screen.inputs.)
ScriptRun(m, w, click, ext) ==
    LET fenc == Transform(m["le_floor.joblib"].classes, w.floor_material)
        senc == Transform(m["le_style.joblib"].classes, w.style)
        fcall == TransformCall("le_floor.transform", w.floor_material, fenc)
        scall == TransformCall("le_style.transform", w.style, senc)
        x == <<w.rooms, w.bathrooms, w.total_surface, w.building_age,
               fenc.code, senc.code>>
        top == [BlankScreen EXCEPT !.inputs = w, !.warnings = Warnings(w),
                                   !.button = TRUE, !.calculate = click]
    IN  IF ~click THEN top
        \* lines 86-87 stand before the try statement
        ELSE IF ~fenc.ok
          THEN [top EXCEPT !.raised = fenc.error, !.calls = <<fcall>>]
        ELSE IF ~senc.ok
          THEN [top EXCEPT !.raised = senc.error, !.calls = <<fcall, scall>>]
        \* lines 94-106
        ELSE IF ~ext.ok
          THEN [top EXCEPT !.error = ext.error, !.raised = ext.error,
                           !.calls = <<fcall, scall, PredictCall(x, ext)>>]
        \* lines 98-102 and 108-190
        ELSE [top EXCEPT !.debug = TRUE,
                         !.metrics = [shown |-> TRUE,
                                      lower |-> Round2(ext.lower),
                                      point |-> Round2(ext.prediction),
                                      upper |-> Round2(ext.upper)],
                         !.chart = TRUE,
                         !.calls = <<fcall, scall, PredictCall(x, ext)>>]

FormInit ==
    /\ fpc = "down"
    /\ models = NoArtifacts
    /\ screen = BlankScreen

\* The first run of the script: load_models() (lines 14-23) and, if every
\* load returned, the page with the widgets at their defaults.  A failed load
\* ends the run with the exception, and nothing is cached.
FormStart ==
    /\ fpc \in {"down", "failed"}
    /\ IF AllPresent(disk)
         THEN /\ fpc' = "ready"
              /\ models' = disk
              /\ screen' = ScriptRun(disk, FormDefaults(disk), FALSE,
                                     CHOOSE e \in PredictOutcomes : e.ok)
         ELSE /\ fpc' = "failed"
              /\ models' = NoArtifacts
              /\ screen' = [BlankScreen EXCEPT !.raised = FirstMissing(disk)]
    /\ UNCHANGED <<fileVars, genVars, trainVars, svcVars>>

\* The user changes a widget or presses the button: the page is cleared and
\* the script is run again from its first line
FormRerun ==
    /\ fpc = "ready"
    /\ fpc' = "running"
    /\ screen' = BlankScreen
    /\ UNCHANGED <<models, fileVars, genVars, trainVars, svcVars>>

\* That run of the script, with the widgets' values and the button's state
\* (click) it finds
FormRun ==
    /\ fpc = "running"
    /\ \E w \in FormInputs(models), click \in BOOLEAN, ext \in PredictOutcomes :
        screen' = ScriptRun(models, w, click, ext)
    /\ fpc' = "ready"
    /\ UNCHANGED <<models, fileVars, genVars, trainVars, svcVars>>

(***************************************************************************)
(* Specifications                                                          *)
(***************************************************************************)
Init == GenInit /\ FilesInit /\ TrainInit /\ SvcInit /\ FormInit

\* One call of generate_apartment_data
GenNext == GenDraw \/ GenRentStep \/ GenFrame

SpecGen == Init /\ [][GenNext]_vars

\* Trainer runs and the Prediction Service
Next == ReplaceDataset \/ TrainNext \/ SvcNext

Spec == Init /\ [][Next]_vars

\* Trainer runs and the Interactive Form.  The form reads the files only in
\* load_models(), whose result is cached for the life of the process, so the
\* trainer runs that follow a successful load are left out.
PrepareArtifacts ==
    /\ fpc \in {"down", "failed"}
    /\ ReplaceDataset \/ TrainEncoders \/ TrainFit \/ TrainSave

NextForm == PrepareArtifacts \/ FormStart \/ FormRerun \/ FormRun

SpecForm == Init /\ [][NextForm]_vars

(***************************************************************************)
(* Properties                                                              *)
(***************************************************************************)
FloorClasses == loaded["le_floor.joblib"].classes
StyleClasses == loaded["le_style.joblib"].classes

InBounds(b) ==
    /\ b.rooms \in 1..5
    /\ b.bathrooms \in 1..3
    /\ b.total_surface \in 30..200
    /\ b.building_age \in 0..50

Called(calls, name) == \E i \in 1..Len(calls) : calls[i].fn = name

\* C1: a POST /predict whose numbers are within bounds and whose
\* floor_material or style is not a label of the loaded encoder is answered
\* 400, the detail names an offending field and lists that encoder's whole
\* label set; it is not answered 500 and conformal_model.predict is not called.
C1_UnknownLabelIs400 ==
    (/\ preq.stage = "done"
     /\ InBounds(preq.body)
     /\ \/ preq.body.floor_material \notin Range(FloorClasses)
        \/ preq.body.style \notin Range(StyleClasses))
    => /\ preq.status = 400
       /\ preq.detail.kind = "invalid"
       /\ \/ /\ preq.detail.field = "floor_material"
             /\ preq.body.floor_material \notin Range(FloorClasses)
             /\ preq.detail.valid = FloorClasses
          \/ /\ preq.detail.field = "style"
             /\ preq.body.style \notin Range(StyleClasses)
             /\ preq.detail.valid = StyleClasses
       /\ ~Called(preq.calls, "conformal_model.predict")
       /\ preq.result = NoResult

\* C1 happens: "Marble" is answered 400 with the five materials of the encoder
C1_Witness ==
    /\ preq.stage = "done"
    /\ InBounds(preq.body)
    /\ preq.body.floor_material = "Marble"
    /\ preq.status = 400
    /\ preq.detail.field = "floor_material"
    /\ preq.detail.valid = <<"Carpet", "Hardwood", "Laminate", "Tile", "Vinyl">>

\* C2: a POST /predict with rooms outside 1..5, bathrooms outside 1..3,
\* total_surface outside 30..200 or building_age outside 0..50 is answered
\* with a client error; no transform and no predict is called for it and no
\* success response is produced.
C2_OutOfRangeRejected ==
    (preq.stage # "none" /\ ~InBounds(preq.body))
    => /\ preq.stage = "done"
       /\ preq.status \in 400..499
       /\ preq.calls = <<>>
       /\ preq.result = NoResult

\* C2 happens: rooms = 6 has been rejected
C2_Witness ==
    /\ preq.stage = "done"
    /\ preq.body.rooms = 6
    /\ preq.status = 422
    /\ preq.detail.field = "rooms"

\* C3: an answered POST /predict that passed both validations and in which
\* a transform or the predict raised is answered 500 with the description of
\* that failure (which is logged); a 400 raised by the handler stays a 400;
\* every answered request has one status, and predict was called at most once.
C3_FailureIs500AndValidationStays400 ==
    preq.stage = "done" /\ InBounds(preq.body)
    => /\ preq.status \in {200, 400, 500}
       /\ \A i \in 1..Len(preq.calls) :
            preq.calls[i].raised # None
            => /\ preq.status = 500
               /\ preq.detail.kind = "prediction_error"
               /\ preq.detail.desc = preq.calls[i].raised
               /\ preq.result = NoResult
               /\ \E j \in 1..Len(log) :
                    log[j].level = "ERROR" /\ log[j].detail = preq.calls[i].raised
       /\ (\/ preq.body.floor_material \notin Range(FloorClasses)
           \/ preq.body.style \notin Range(StyleClasses))
          => preq.status = 400 /\ preq.detail.kind = "invalid"
       /\ preq.status = 500 =>
            \E i \in 1..Len(preq.calls) : preq.calls[i].raised # None
       /\ Cardinality({i \in 1..Len(preq.calls) :
                         preq.calls[i].fn = "conformal_model.predict"}) <= 1

\* C3 happens: predict raised for a validated request, which was answered 500
C3_Witness ==
    /\ preq.stage = "done"
    /\ preq.status = 500
    /\ Len(preq.calls) = 3
    /\ preq.calls[3].raised # None

\* C4: a request is handled only while all four artifacts are loaded; when a
\* load fails the cause is logged, the process is aborted and no request is
\* ever received or answered.
C4_ServesOnlyWhenLoaded ==
    /\ (served > 0 \/ preq.stage # "none" \/ ireq.kind # "none")
       => svc = "serving"
    /\ svc = "serving" => \A f \in Range(Files) : loaded[f].kind # "absent"
    /\ svc = "aborted"
       => /\ Len(log) = 1
          /\ log[1].level = "ERROR"
          /\ log[1].detail \in Range(Files)
          /\ served = 0 /\ preq = NoRequest /\ ireq = NoAnswer

\* C4 happens: the encoders are on disk, the regressor is not, startup aborted
C4_Witness ==
    /\ svc = "aborted"
    /\ disk["le_floor.joblib"].kind = "encoder"
    /\ log[1].detail = "rent_model.joblib"

\* C5: between trainer runs, the persisted artifacts all come from one and
\* the same run.
C5_ArtifactsFromOneRun ==
    tpc = "idle"
    => \A f, g \in Range(Files) :
          disk[f].kind # "absent" /\ disk[g].kind # "absent"
          => disk[f].run = disk[g].run

InfoAgreesWithPredict ==
    /\ ireq.kind = "info"
       => /\ ireq.floor_materials = FloorClasses
          /\ ireq.styles = StyleClasses
    /\ (ireq.kind = "info" /\ preq.stage = "done" /\ InBounds(preq.body))
       => /\ (preq.status = 400 /\ preq.detail.field = "floor_material")
             <=> preq.body.floor_material \notin Range(ireq.floor_materials)
          /\ (preq.status = 400 /\ preq.detail.field = "style")
             <=> /\ preq.body.floor_material \in Range(ireq.floor_materials)
                 /\ preq.body.style \notin Range(ireq.styles)
          /\ preq.status = 400 => preq.detail.valid \in {ireq.floor_materials, ireq.styles}

\* C6: whatever the order of GET /info and POST /predict, the lists /info
\* returned are the label sets /predict accepts and rejects by, and no step
\* taken while serving changes the loaded artifacts.
C6_InfoAndPredictAgree ==
    /\ []InfoAgreesWithPredict
    /\ [][svc = "serving" => loaded' = loaded]_vars

\* C6 happens: /info listed five materials, /predict rejected a label, and a
\* trainer run has rewritten the encoder file since startup
C6_Witness ==
    /\ ireq.kind = "info"
    /\ Len(ireq.floor_materials) = 5
    /\ preq.stage = "done"
    /\ preq.status = 400
    /\ disk["le_floor.joblib"] # loaded["le_floor.joblib"]

\* C7: after a submit, an error raised by a transform or by predict is shown
\* with its description (st.error) and raised, and no result display or
\* chart is produced.
C7_FailureShownAndRaised ==
    \A i \in 1..Len(screen.calls) :
        screen.calls[i].raised # None
        => /\ screen.error = screen.calls[i].raised
           /\ screen.raised = screen.calls[i].raised
           /\ ~screen.metrics.shown
           /\ ~screen.chart

\* C8: a finished call returns a table of n_samples rows, every monthly_rent
\* is at least 500, every floor_material and style is one of the five; the
\* call does not end in an error.
C8_TableOfGenerator ==
    /\ gen_pc # "error"
    /\ gen_pc = "done"
       => /\ Len(df) = n_samples
          /\ \A i \in 1..Len(df) :
                /\ df[i].monthly_rent >= 500 * 100
                /\ df[i].floor_material \in
                     {"Hardwood", "Carpet", "Tile", "Laminate", "Vinyl"}
                /\ df[i].style \in
                     {"Modern", "Contemporary", "Traditional", "Industrial",
                      "Minimalist"}

\* C8 happens: a call with n_samples = 2 has returned
C8_Witness ==
    /\ gen_pc = "done"
    /\ n_samples = 2
    /\ Len(df) = 2
    /\ df[1].floor_material # df[2].floor_material

\* C9: in every run of the script that reaches the widgets, the surface
\* warning is shown exactly when total_surface < 15 * rooms, the bathroom
\* warning exactly when bathrooms > rooms, the button is shown with or
\* without warnings, and a submit of values the widgets offer calls both
\* transforms and predict with those values.
C9_WarningsDoNotBlock ==
    screen.button
    => /\ SurfaceWarningText \in screen.warnings
          <=> screen.inputs.total_surface < 15 * screen.inputs.rooms
       /\ BathroomWarningText \in screen.warnings
          <=> screen.inputs.bathrooms > screen.inputs.rooms
       /\ screen.warnings \subseteq {SurfaceWarningText, BathroomWarningText}
       /\ (/\ screen.calculate
           /\ screen.inputs.floor_material \in Range(models["le_floor.joblib"].classes)
           /\ screen.inputs.style \in Range(models["le_style.joblib"].classes))
          => /\ Len(screen.calls) = 3
             /\ screen.calls[1].fn = "le_floor.transform"
             /\ screen.calls[1].label = screen.inputs.floor_material
             /\ screen.calls[2].fn = "le_style.transform"
             /\ screen.calls[2].label = screen.inputs.style
             /\ screen.calls[3].fn = "conformal_model.predict"
             /\ SubSeq(screen.calls[3].features, 1, 4)
                  = <<screen.inputs.rooms, screen.inputs.bathrooms,
                      screen.inputs.total_surface, screen.inputs.building_age>>

\* C9 happens: a submit under the surface warning reached predict and the
\* results (the two warnings exclude each other: one needs 3 rooms or more,
\* the other 2 rooms or fewer)
C9_Witness ==
    /\ fpc = "ready"
    /\ screen.calculate
    /\ screen.warnings = {SurfaceWarningText}
    /\ screen.inputs.total_surface = 74
    /\ Len(screen.calls) = 3
    /\ screen.metrics.shown

\* C10: the rent of every generated row before the floor is above 500 (at
\* least 1048), so monthly_rent is the unfloored value.
C10_FloorNeverActs ==
    \A i \in 1..Len(monthly_rent) :
        /\ Unfloored(data[i], factors[i]) > 500 * 100
        /\ Unfloored(data[i], factors[i]) >= 1048 * 100
        /\ monthly_rent[i] = Unfloored(data[i], factors[i])

\* C10 happens: the cheapest row (1 room, 1 bathroom, 30 m2, 49 years, factor
\* 0.8) has been priced at 1048
C10_Witness ==
    \E i \in 1..Len(monthly_rent) :
        /\ data[i].building_age = 49
        /\ monthly_rent[i] = 1048 * 100

====
